---- MODULE Spec2Model ----
(***************************************************************************)
(* The Hindu clock side panel of frontend/src/Panchang/Panchang.jsx:       *)
(* computeFromSeconds, the HinduPanel timer effect (start / tick / stop),  *)
(* the unit rows it renders, and the Panchang component state that feeds   *)
(* it (panelOpen, panchang.hindu_time, the fetch).                         *)
(*                                                                         *)
(* JavaScript values are records [k, v]: k = "null" (null or undefined),   *)
(* "nan" (the number NaN), "num" (an integer, in v), "str" (a string       *)
(* holding the decimal digits of v), "bad" (any other non-empty string),   *)
(* "empty" (the empty string), "iso" (a timestamp string denoting the      *)
(* instant v, in milliseconds), "hms" (an "HH:MM:SS" string, v = <<h,m,s>>)*)
(* and "dash" (the placeholder string).                                    *)
(*                                                                         *)
(* Each event handler is one action: the state updates it makes, the       *)
(* re-render they cause and the effect run of that commit.                 *)
(***************************************************************************)
EXTENDS Integers, Sequences, FiniteSets, TLC

VARIABLES
    mounted,      \* the Panchang component (and its HinduPanel) is mounted
    panelOpen,    \* Panchang state panelOpen = HinduPanel prop open
    hinduTime,    \* panchang?.hindu_time ?? null, the HinduPanel prop
    loading,      \* Panchang state loading
    showModal,    \* Panchang state showModal
    showPanchang, \* Panchang state showPanchang
    inflight,     \* axios requests of fetchPanchang not yet settled
    formData,     \* Panchang state formData: the location chosen in the form
    tick,         \* HinduPanel state tick
    tickRef,      \* tickRef.current: an interval id, 0 for null
    intervals,    \* the host's live setInterval timers (ids)
    nextId,       \* the id the next setInterval returns
    hasCleanup,   \* the last run of the timer effect returned a cleanup
    now,          \* the client wall clock, Date.now() (local ms)
    startAt,      \* history: Date.now() at the Start of the running session
    initial,      \* history: the value that Start passed to setTick
    ticks,        \* history: ticks delivered since that Start
    restarted,    \* history: that Start found the previous interval running
    arg,          \* input of a stand-alone computeFromSeconds call
    out           \* its result

panchangVars == <<panelOpen, hinduTime, loading, showModal, showPanchang, inflight>>
panelVars == <<tick, tickRef, intervals, nextId, hasCleanup>>
histVars == <<startAt, initial, ticks, restarted>>
convVars == <<arg, out>>
formVars == <<formData>>
vars == <<mounted, panchangVars, panelVars, histVars, now, convVars, formVars>>

(* ---------------- bounds of the model ---------------- *)
MaxStarts == 3
MaxTicks == 3
MaxInFlight == 2

\* the locations the form can hold: an index into presets, 0 the default
FormValues == {0, 1}

(* ---------------- JavaScript values ---------------- *)
Null == [k |-> "null", v |-> 0]
NaN == [k |-> "nan", v |-> 0]
Num(n) == [k |-> "num", v |-> n]
Str(n) == [k |-> "str", v |-> n]
Bad == [k |-> "bad", v |-> 0]
Empty == [k |-> "empty", v |-> 0]
Iso(t) == [k |-> "iso", v |-> t]
Hms(h, m, s) == [k |-> "hms", v |-> <<h, m, s>>]
Dash == [k |-> "dash", v |-> 0]

IsNullish(x) == x.k = "null"
IsNum(x) == x.k = "num"

\* x ? .. : ..  on the values used here
Truthy(x) ==
    CASE x.k = "null" -> FALSE
      [] x.k = "nan" -> FALSE
      [] x.k = "empty" -> FALSE
      [] x.k = "num" -> x.v # 0
      [] OTHER -> TRUE

\* Number(x)
ToNumber(x) ==
    CASE x.k = "num" -> x
      [] x.k = "str" -> Num(x.v)
      [] x.k = "null" -> Num(0)
      [] x.k = "empty" -> Num(0)
      [] OTHER -> NaN

\* new Date(x).getTime()
DateParse(x) ==
    CASE x.k = "iso" -> Num(x.v)
      [] x.k = "num" -> x
      [] OTHER -> NaN

\* a + b on numbers
JsAdd(a, b) == IF IsNum(a) /\ IsNum(b) THEN Num(a.v + b.v) ELSE NaN

\* a - b on numbers
JsSub(a, b) == IF IsNum(a) /\ IsNum(b) THEN Num(a.v - b.v) ELSE NaN

\* a % b of JavaScript for b > 0: the sign of the dividend
JsRem(a, b) == IF a >= 0 THEN a % b ELSE 0 - ((0 - a) % b)

\* Math.floor(a / b) for b > 0
FloorDiv(a, b) == a \div b

\* Math.floor(x / 1000) on a number
FloorSecondsTrunc(x) ==
    IF IsNum(x)
    THEN Num(IF x.v >= 0 THEN x.v \div 1000 ELSE 0 - ((0 - x.v) \div 1000))
    ELSE NaN

FloorSeconds(x) == IF IsNum(x) THEN Num(FloorDiv(x.v, 1000)) ELSE NaN

(* ---------------- computeFromSeconds ---------------- *)
SEC_PRANA == 4
SEC_VINADI == 24
SEC_GHATI == 24 * 60
SEC_MUHURTA == 48 * 60
DAY == 24 * 3600

\* computeFromSeconds without the normalisation of a negative argument
computeFromSecondsNoNormalise(s0) ==
    LET s == s0
        ghatiRem == JsRem(s, SEC_GHATI)
        muhurtaRem == JsRem(s, SEC_MUHURTA)
    IN  [seconds |-> s,
         totalPranas |-> FloorDiv(s, SEC_PRANA),
         totalVinadis |-> FloorDiv(s, SEC_VINADI),
         ghatiCount |-> JsRem(FloorDiv(s, SEC_GHATI), 60),
         ghatiH |-> FloorDiv(ghatiRem, 3600),
         ghatiM |-> FloorDiv(JsRem(ghatiRem, 3600), 60),
         ghatiS |-> JsRem(ghatiRem, 60),
         muhurtaCount |-> JsRem(FloorDiv(s, SEC_MUHURTA), 30),
         muhurtaH |-> FloorDiv(muhurtaRem, 3600),
         muhurtaM |-> FloorDiv(JsRem(muhurtaRem, 3600), 60),
         muhurtaS |-> JsRem(muhurtaRem, 60),
         vinadiInGhati |-> FloorDiv(ghatiRem, SEC_VINADI),
         pranaInGhati |-> FloorDiv(ghatiRem, SEC_PRANA)]

\* computeFromSeconds with the muhurta remainder taken modulo a ghati
computeFromSecondsGhatiRem(s0) ==
    LET s == IF s0 < 0 THEN s0 + DAY ELSE s0
        ghatiRem == JsRem(s, SEC_GHATI)
        muhurtaRem == JsRem(s, SEC_GHATI)
    IN  [seconds |-> s,
         totalPranas |-> FloorDiv(s, SEC_PRANA),
         totalVinadis |-> FloorDiv(s, SEC_VINADI),
         ghatiCount |-> JsRem(FloorDiv(s, SEC_GHATI), 60),
         ghatiH |-> FloorDiv(ghatiRem, 3600),
         ghatiM |-> FloorDiv(JsRem(ghatiRem, 3600), 60),
         ghatiS |-> JsRem(ghatiRem, 60),
         muhurtaCount |-> JsRem(FloorDiv(s, SEC_MUHURTA), 30),
         muhurtaH |-> FloorDiv(muhurtaRem, 3600),
         muhurtaM |-> FloorDiv(JsRem(muhurtaRem, 3600), 60),
         muhurtaS |-> JsRem(muhurtaRem, 60),
         vinadiInGhati |-> FloorDiv(ghatiRem, SEC_VINADI),
         pranaInGhati |-> FloorDiv(ghatiRem, SEC_PRANA)]

\* computeFromSeconds with the prana of the ghati counted from sunrise
computeFromSecondsPranaOfDay(s0) ==
    LET s == IF s0 < 0 THEN s0 + DAY ELSE s0
        ghatiRem == JsRem(s, SEC_GHATI)
        muhurtaRem == JsRem(s, SEC_MUHURTA)
    IN  [seconds |-> s,
         totalPranas |-> FloorDiv(s, SEC_PRANA),
         totalVinadis |-> FloorDiv(s, SEC_VINADI),
         ghatiCount |-> JsRem(FloorDiv(s, SEC_GHATI), 60),
         ghatiH |-> FloorDiv(ghatiRem, 3600),
         ghatiM |-> FloorDiv(JsRem(ghatiRem, 3600), 60),
         ghatiS |-> JsRem(ghatiRem, 60),
         muhurtaCount |-> JsRem(FloorDiv(s, SEC_MUHURTA), 30),
         muhurtaH |-> FloorDiv(muhurtaRem, 3600),
         muhurtaM |-> FloorDiv(JsRem(muhurtaRem, 3600), 60),
         muhurtaS |-> JsRem(muhurtaRem, 60),
         vinadiInGhati |-> FloorDiv(ghatiRem, SEC_VINADI),
         pranaInGhati |-> FloorDiv(s, SEC_PRANA)]

computeFromSeconds(s0) ==
    LET s == IF s0 < 0 THEN s0 + DAY ELSE s0
        ghatiRem == JsRem(s, SEC_GHATI)
        muhurtaRem == JsRem(s, SEC_MUHURTA)
    IN  [seconds |-> s,
         totalPranas |-> FloorDiv(s, SEC_PRANA),
         totalVinadis |-> FloorDiv(s, SEC_VINADI),
         ghatiCount |-> JsRem(FloorDiv(s, SEC_GHATI), 60),
         ghatiH |-> FloorDiv(ghatiRem, 3600),
         ghatiM |-> FloorDiv(JsRem(ghatiRem, 3600), 60),
         ghatiS |-> JsRem(ghatiRem, 60),
         muhurtaCount |-> JsRem(FloorDiv(s, SEC_MUHURTA), 30),
         muhurtaH |-> FloorDiv(muhurtaRem, 3600),
         muhurtaM |-> FloorDiv(JsRem(muhurtaRem, 3600), 60),
         muhurtaS |-> JsRem(muhurtaRem, 60),
         vinadiInGhati |-> FloorDiv(ghatiRem, SEC_VINADI),
         pranaInGhati |-> FloorDiv(ghatiRem, SEC_PRANA)]

BreakdownFields ==
    {"seconds", "totalPranas", "totalVinadis", "ghatiCount", "ghatiH", "ghatiM",
     "ghatiS", "muhurtaCount", "muhurtaH", "muhurtaM", "muhurtaS",
     "vinadiInGhati", "pranaInGhati"}

\* the object computeFromSeconds returns for a number t (every field is NaN for NaN)
computeFromNumber(t) ==
    IF IsNum(t)
    THEN [f \in BreakdownFields |-> Num(computeFromSeconds(t.v)[f])]
    ELSE [f \in BreakdownFields |-> NaN]

\* const derived = tick != null ? computeFromSeconds(tick) : null
Derived(t) == IF IsNullish(t) THEN [k |-> "null"] ELSE [k |-> "obj", v |-> computeFromNumber(t)]

\* no stand-alone call made yet
NoResult == [seconds |-> 0 - 1]

(* ---------------- the wall clock ---------------- *)
\* local wall-clock instant of day d at h:m:s.ms, in ms (local time without
\* daylight-saving shifts, days counted from a local midnight)
At(d, h, m, s, ms) == (((d * 24 + h) * 60 + m) * 60 + s) * 1000 + ms

DayMs == DAY * 1000

T0 == At(1, 6, 30, 0, 0)

\* the instants the wall clock is observed at
ClockPoints ==
    {At(1, 6, 29, 59, 0), At(1, 6, 29, 59, 999), T0, T0 + 2000, T0 + 5000,
     At(1, 23, 59, 59, 999)}

(* ---------------- the anchor payload (panchang.hindu_time) ---------------- *)
NoAnchor == [k |-> "null"]

NoSnapshot ==
    [ghaTi_count |-> Null, ghaTi_str |-> Null, muhurta_count |-> Null,
     muhurta_str |-> Null, vinadi |-> Null, prana |-> Null, total_pranas |-> Null]

Anchor(er, tr, snap) ==
    [k |-> "obj", seconds_since_sunrise |-> er, now_local_iso |-> tr, snap |-> snap]

\* payloads the service (or a broken one) may send
Anchors ==
    {Anchor(Num(100), Iso(T0), NoSnapshot),
     Anchor(Num(5000), Iso(T0),
            [ghaTi_count |-> Num(3), ghaTi_str |-> Hms(0, 11, 20),
             muhurta_count |-> Num(1), muhurta_str |-> Hms(0, 35, 20),
             vinadi |-> Num(28), prana |-> Num(170), total_pranas |-> Num(1250)]),
     Anchor(Num(1438), Iso(T0),
            [ghaTi_count |-> Num(0), ghaTi_str |-> Hms(0, 23, 58),
             muhurta_count |-> Num(0), muhurta_str |-> Hms(0, 23, 58),
             vinadi |-> Num(59), prana |-> Num(359), total_pranas |-> Num(359)]),
     Anchor(Num(86398), Iso(T0), NoSnapshot),
     Anchor(Num(0), Iso(T0), NoSnapshot),
     Anchor(Num(10), Iso(T0 + 2 * DayMs), NoSnapshot),
     Anchor(Bad, Iso(T0), NoSnapshot),
     Anchor(Num(100), Bad, NoSnapshot),
     Anchor(Num(100), Null, NoSnapshot),
     Anchor(Null, Iso(T0), NoSnapshot)}

\* hinduTime && hinduTime.seconds_since_sunrise != null && hinduTime.now_local_iso
HasAnchor(h) ==
    /\ h.k = "obj"
    /\ ~IsNullish(h.seconds_since_sunrise)
    /\ Truthy(h.now_local_iso)

(* ---------------- the two sources of the starting value ---------------- *)
\* serverSeconds + elapsed with the division truncated toward zero
SyncInitialTrunc(h, nowMs) ==
    JsAdd(ToNumber(h.seconds_since_sunrise),
          FloorSecondsTrunc(JsSub(Num(nowMs), DateParse(h.now_local_iso))))

\* serverSeconds + elapsed
SyncInitial(h, nowMs) ==
    JsAdd(ToNumber(h.seconds_since_sunrise),
          FloorSeconds(JsSub(Num(nowMs), DateParse(h.now_local_iso))))

\* new Date(y, m, d, 6, 30, 0).getTime() for the date of nowMs
SunriseToday(nowMs) == FloorDiv(nowMs, DayMs) * DayMs + (6 * 3600 + 30 * 60) * 1000

\* the fallback value without the wrap of a negative base
FallbackInitialNoWrap(nowMs) == Num(FloorDiv(nowMs - SunriseToday(nowMs), 1000))

\* baseWrap
FallbackInitial(nowMs) ==
    LET base == FloorDiv(nowMs - SunriseToday(nowMs), 1000)
    IN  Num(IF base >= 0 THEN base ELSE base + 24 * 3600)

\* the value the effect passes to setTick when open
StartValue(h, nowMs) ==
    IF HasAnchor(h) THEN SyncInitial(h, nowMs) ELSE FallbackInitial(nowMs)

\* a tick that re-derives the value from the wall clock
TickResync(prev) ==
    IF HasAnchor(hinduTime) THEN SyncInitial(hinduTime, now) ELSE FallbackInitial(now)

\* setTick(prev => prev + 1)
TickUpdate(prev) ==
    CASE prev.k = "num" -> Num(prev.v + 1)
      [] prev.k = "null" -> Num(1)
      [] OTHER -> NaN

(* ---------------- the timer effect of HinduPanel ---------------- *)
\* an effect that returns no cleanup
NoCleanup(ref, ivs) == [ref |-> ref, ivs |-> ivs]

\* a cleanup that drops the handle without cancelling the timer
CleanupNoCancel(ref, ivs) == [ref |-> 0, ivs |-> ivs]

\* the cleanup the effect returns when open
EffectCleanup(ref, ivs) ==
    IF ref # 0 THEN [ref |-> 0, ivs |-> ivs \ {ref}] ELSE [ref |-> ref, ivs |-> ivs]

\* if (!open) { if (tickRef.current) { clearInterval(..); tickRef.current = null; } return; }
StopWhenClosed(ref, ivs) ==
    IF ref # 0 THEN [ref |-> 0, ivs |-> ivs \ {ref}] ELSE [ref |-> ref, ivs |-> ivs]

\* the effect without its test of open: every run starts the clock
RunTimerEffectNoGate(open, h) ==
    LET c == IF hasCleanup THEN EffectCleanup(tickRef, intervals)
                           ELSE [ref |-> tickRef, ivs |-> intervals]
    IN  /\ nextId <= MaxStarts
        /\ tick' = StartValue(h, now)
        /\ tickRef' = nextId
        /\ intervals' = c.ivs \cup {nextId}
        /\ nextId' = nextId + 1
        /\ hasCleanup' = TRUE
        /\ startAt' = now
        /\ initial' = StartValue(h, now)
        /\ ticks' = 0
        /\ restarted' = (intervals # {})

\* React re-runs the effect of deps [open, hinduTime]: the cleanup of the
\* previous run, if it returned one, then the body with the new props.
RunTimerEffect(open, h) ==
    LET c == IF hasCleanup THEN EffectCleanup(tickRef, intervals)
                           ELSE [ref |-> tickRef, ivs |-> intervals]
    IN  IF ~open
        THEN LET st == StopWhenClosed(c.ref, c.ivs)
             IN  /\ tickRef' = st.ref
                 /\ intervals' = st.ivs
                 /\ hasCleanup' = FALSE
                 /\ startAt' = 0
                 /\ initial' = Null
                 /\ ticks' = 0
                 /\ restarted' = FALSE
                 /\ UNCHANGED <<tick, nextId>>
        ELSE /\ nextId <= MaxStarts
             /\ tick' = StartValue(h, now)
             /\ tickRef' = nextId
             /\ intervals' = c.ivs \cup {nextId}
             /\ nextId' = nextId + 1
             /\ hasCleanup' = TRUE
             /\ startAt' = now
             /\ initial' = StartValue(h, now)
             /\ ticks' = 0
             /\ restarted' = (intervals # {})

\* a commit that re-runs the effect on every render: no dependency array
RenderNoDeps(open) == RunTimerEffect(open, hinduTime)

\* Panchang re-renders and hands HinduPanel the hinduTime object it already
\* held: React compares the deps [open, hinduTime] with those of the previous
\* commit and re-runs the effect only if one of them differs
RenderSameAnchor(open) ==
    IF open = panelOpen
    THEN UNCHANGED <<panelVars, histVars>>
    ELSE RunTimerEffect(open, hinduTime)

(* ---------------- the unit rows HinduPanel renders ---------------- *)
Live(x) == [src |-> "live", val |-> x]
Snapshot(x) == [src |-> "snapshot", val |-> x]
Placeholder == [src |-> "placeholder", val |-> Dash]

\* hinduTime?.<field>, null when hinduTime is null
SnapField(h, f) == IF h.k = "obj" THEN h.snap[f] ELSE Null

\* `${pad(H)}:${pad(M)}:${pad(S)}`
PadHms(hh, mm, ss) ==
    IF IsNum(hh) /\ IsNum(mm) /\ IsNum(ss) THEN Hms(hh.v, mm.v, ss.v) ELSE Bad

\* derived ? <live> : (<snapshot> ?? '-')
LiveFirst(d, live, snap) ==
    IF d.k = "obj" THEN Live(live)
    ELSE IF ~IsNullish(snap) THEN Snapshot(snap) ELSE Placeholder

\* <snapshot> ?? (derived ? <live> : '-')
SnapshotFirst(d, live, snap) ==
    IF ~IsNullish(snap) THEN Snapshot(snap)
    ELSE IF d.k = "obj" THEN Live(live) ELSE Placeholder

\* the values of the unit rows for props (open, hinduTime) and state tick
Render(open, t, h) ==
    LET d == Derived(t)
        b == IF d.k = "obj" THEN d.v ELSE [f \in BreakdownFields |-> NaN]
    IN  IF ~open THEN [k |-> "null"]
        ELSE [k |-> "rows",
              seconds |->
                  LiveFirst(d, b.seconds,
                            IF h.k = "obj" THEN h.seconds_since_sunrise ELSE Null),
              ghatiCount |-> SnapshotFirst(d, b.ghatiCount, SnapField(h, "ghaTi_count")),
              ghatiRem |->
                  LiveFirst(d, PadHms(b.ghatiH, b.ghatiM, b.ghatiS),
                            SnapField(h, "ghaTi_str")),
              muhurtaCount |->
                  SnapshotFirst(d, b.muhurtaCount, SnapField(h, "muhurta_count")),
              muhurtaRem |->
                  LiveFirst(d, PadHms(b.muhurtaH, b.muhurtaM, b.muhurtaS),
                            SnapField(h, "muhurta_str")),
              vinadiInGhati |-> SnapshotFirst(d, b.vinadiInGhati, SnapField(h, "vinadi")),
              pranaInGhati |-> SnapshotFirst(d, b.pranaInGhati, SnapField(h, "prana")),
              totalPranas |->
                  LiveFirst(d, b.totalPranas, SnapField(h, "total_pranas"))]

\* what the mounted panel shows in the current state
View == Render(mounted /\ panelOpen, tick, hinduTime)

DisplayFields ==
    {"seconds", "ghatiCount", "ghatiRem", "muhurtaCount", "muhurtaRem",
     "vinadiInGhati", "pranaInGhati", "totalPranas"}

\* the snapshot value the anchor carries for a display field
SnapshotOf(h, f) ==
    IF h.k # "obj" THEN Null
    ELSE CASE f = "seconds" -> h.seconds_since_sunrise
           [] f = "ghatiCount" -> h.snap.ghaTi_count
           [] f = "ghatiRem" -> h.snap.ghaTi_str
           [] f = "muhurtaCount" -> h.snap.muhurta_count
           [] f = "muhurtaRem" -> h.snap.muhurta_str
           [] f = "vinadiInGhati" -> h.snap.vinadi
           [] f = "pranaInGhati" -> h.snap.prana
           [] f = "totalPranas" -> h.snap.total_pranas

(* ---------------- the state after the first render ---------------- *)
InitPanel ==
    /\ mounted = TRUE
    /\ panelOpen = FALSE
    /\ hinduTime = NoAnchor
    /\ loading = FALSE
    /\ showModal = FALSE
    /\ showPanchang = FALSE
    /\ inflight = 0
    /\ formData = 0
    /\ tick = Null
    /\ tickRef = 0
    /\ intervals = {}
    /\ nextId = 1
    /\ hasCleanup = FALSE
    /\ startAt = 0
    /\ initial = Null
    /\ ticks = 0
    /\ restarted = FALSE

Init ==
    /\ InitPanel
    /\ now \in ClockPoints
    /\ arg = 0
    /\ out = NoResult

(* ---------------- operations of the Panchang component ---------------- *)
\* onClick={() => setPanelOpen(true)}; no re-render when already open
OpenPanel ==
    /\ mounted
    /\ IF panelOpen
       THEN UNCHANGED <<panelOpen, panelVars, histVars>>
       ELSE /\ panelOpen' = TRUE
            /\ RunTimerEffect(TRUE, hinduTime)
    /\ UNCHANGED <<mounted, hinduTime, loading, showModal, showPanchang, inflight, now, convVars, formVars>>

\* onClose={() => setPanelOpen(false)}, rendered only while open
ClosePanel ==
    /\ mounted
    /\ panelOpen
    /\ panelOpen' = FALSE
    /\ RunTimerEffect(FALSE, hinduTime)
    /\ UNCHANGED <<mounted, hinduTime, loading, showModal, showPanchang, inflight, now, convVars, formVars>>

\* the Fetch Panchang button, disabled={loading}
OpenModal ==
    /\ mounted
    /\ ~loading
    /\ showModal' = TRUE
    /\ RenderSameAnchor(panelOpen)
    /\ UNCHANGED <<mounted, panelOpen, hinduTime, loading, showPanchang, inflight,
                   now, convVars, formVars>>

\* the Cancel button and the modal overlay
CloseModal ==
    /\ mounted
    /\ showModal
    /\ showModal' = FALSE
    /\ RenderSameAnchor(panelOpen)
    /\ UNCHANGED <<mounted, panelOpen, hinduTime, loading, showPanchang, inflight,
                   now, convVars, formVars>>

\* handleSubmit: fetchPanchang up to its await
Submit ==
    /\ mounted
    /\ showModal
    /\ inflight < MaxInFlight
    /\ loading' = TRUE
    /\ inflight' = inflight + 1
    /\ RenderSameAnchor(panelOpen)
    /\ UNCHANGED <<mounted, panelOpen, hinduTime, showModal, showPanchang,
                   now, convVars, formVars>>

\* fetchPanchang after the await, the request fulfilled with a payload whose
\* hindu_time is h (a fresh object, or absent)
FetchResolve(h) ==
    /\ mounted
    /\ inflight > 0
    /\ inflight' = inflight - 1
    /\ hinduTime' = h
    /\ showPanchang' = TRUE
    /\ showModal' = FALSE
    /\ loading' = FALSE
    /\ IF h = NoAnchor /\ hinduTime = NoAnchor
       THEN UNCHANGED <<panelVars, histVars>>
       ELSE RunTimerEffect(panelOpen, h)
    /\ UNCHANGED <<mounted, panelOpen, now, convVars, formVars>>

\* fetchPanchang after the await, the request rejected
FetchReject ==
    /\ mounted
    /\ inflight > 0
    /\ inflight' = inflight - 1
    /\ loading' = FALSE
    /\ RenderSameAnchor(panelOpen)
    /\ UNCHANGED <<mounted, panelOpen, hinduTime, showModal, showPanchang,
                   now, convVars, formVars>>

\* setFormData: handleInputChange and applyPreset in the modal, and the
\* callbacks of the geolocation, timezone and elevation lookups, which arrive
\* at any time after the mount (with their setLocStatus and setGeoBusy)
SetFormData(v) ==
    /\ mounted
    /\ v # formData
    /\ formData' = v
    /\ RenderSameAnchor(panelOpen)
    /\ UNCHANGED <<mounted, panchangVars, now, convVars>>

\* clearPanchang, its button rendered while showPanchang
ClearPanchang ==
    /\ mounted
    /\ showPanchang
    /\ showPanchang' = FALSE
    /\ hinduTime' = NoAnchor
    /\ IF hinduTime = NoAnchor
       THEN UNCHANGED <<panelVars, histVars>>
       ELSE RunTimerEffect(panelOpen, NoAnchor)
    /\ UNCHANGED <<mounted, panelOpen, loading, showModal, inflight, now, convVars, formVars>>

\* the callback of a live interval fires
Tick(id) ==
    /\ mounted
    /\ id \in intervals
    /\ ticks < MaxTicks
    /\ tick' = TickUpdate(tick)
    /\ ticks' = ticks + 1
    /\ UNCHANGED <<mounted, panchangVars, tickRef, intervals, nextId, hasCleanup,
                   startAt, initial, restarted, now, convVars, formVars>>

\* the component tree is torn down: React runs the last cleanup
Unmount ==
    /\ mounted
    /\ mounted' = FALSE
    /\ LET c == IF hasCleanup THEN EffectCleanup(tickRef, intervals)
                              ELSE [ref |-> tickRef, ivs |-> intervals]
       IN  /\ tickRef' = c.ref
           /\ intervals' = c.ivs
    /\ hasCleanup' = FALSE
    /\ startAt' = 0
    /\ initial' = Null
    /\ ticks' = 0
    /\ restarted' = FALSE
    /\ UNCHANGED <<panchangVars, tick, nextId, now, convVars, formVars>>

\* wall-clock time passes
AdvanceClock ==
    /\ \E p \in ClockPoints : p > now /\ now' = p
    /\ UNCHANGED <<mounted, panchangVars, panelVars, histVars, convVars, formVars>>

Next ==
    \/ OpenPanel
    \/ ClosePanel
    \/ OpenModal
    \/ CloseModal
    \/ Submit
    \/ \E h \in Anchors \cup {NoAnchor} : FetchResolve(h)
    \/ FetchReject
    \/ \E v \in FormValues : SetFormData(v)
    \/ ClearPanchang
    \/ \E id \in intervals : Tick(id)
    \/ Unmount
    \/ AdvanceClock

Spec == Init /\ [][Next]_vars

(* ---------------- computeFromSeconds called on its own ---------------- *)
InitConvert ==
    /\ InitPanel
    /\ now = T0
    /\ arg \in (0 - DAY) .. (DAY - 1)
    /\ out = NoResult

Convert ==
    /\ out = NoResult
    /\ out' = computeFromSeconds(arg)
    /\ UNCHANGED <<mounted, panchangVars, panelVars, histVars, now, arg, formVars>>

SpecConvert == InitConvert /\ [][Convert]_vars

(* ======================= the claims ======================= *)
Running == mounted /\ panelOpen

\* the state a Start has just produced (no tick delivered since)
JustStarted == Running /\ ticks = 0

\* an anchor whose two fields parse: a number and a timestamp
WellFormed(h) ==
    /\ h.k = "obj"
    /\ h.seconds_since_sunrise.k = "num"
    /\ h.now_local_iso.k = "iso"

\* an anchor with a field that is present but does not parse
Malformed(h) ==
    /\ h.k = "obj"
    /\ ~IsNullish(h.seconds_since_sunrise)
    /\ ~IsNullish(h.now_local_iso)
    /\ (h.seconds_since_sunrise.k = "bad" \/ h.now_local_iso.k = "bad")

\* C1: in every reachable state at most one repeating callback is live, and
\* it is the one tickRef holds; a Start while running cancels the old interval.
C1_AtMostOneInterval ==
    /\ Cardinality(intervals) <= 1
    /\ intervals \subseteq {tickRef}

\* a Start that found the clock running (the anchor changed while open)
C1_Witness == Running /\ restarted /\ intervals = {tickRef} /\ tickRef > 1

\* C2: a Tick taken at elapsedSeconds e in [0, 86400) leaves (e + 1) mod 86400;
\* at 86399 it leaves 0, never 86400.
C2_TickWraps ==
    [][(ticks' = ticks + 1 /\ IsNum(tick) /\ tick.v \in 0 .. (DAY - 1))
          => tick' = Num((tick.v + 1) % DAY)]_vars

\* C3: once the clock has been started, elapsedSeconds is an integer in
\* [0, 86400) in every reachable state.
C3_TickInRange ==
    nextId > 1 => (IsNum(tick) /\ tick.v >= 0 /\ tick.v < DAY)

\* C4: a Start from a well-formed anchor (Tr, Er) at wall clock Tc sets the
\* TickState to Er + floor((Tc - Tr) / 1000), the floor toward minus infinity:
\* the whole seconds n added satisfy 1000 n <= Tc - Tr < 1000 n + 1000.
C4_SyncInitialIsFloor ==
    (JustStarted /\ WellFormed(hinduTime)) =>
        /\ IsNum(tick)
        /\ LET er == hinduTime.seconds_since_sunrise.v
               d == startAt - hinduTime.now_local_iso.v
               n == tick.v - er
           IN  /\ 1000 * n <= d
               /\ d < 1000 * n + 1000
               /\ (er = 100 /\ d = 5000) => tick.v = 105
               /\ (er = 5000 /\ d = 2000) => tick.v = 5002

\* a Start with the client clock behind the reference by no whole second
C4_Witness ==
    /\ JustStarted
    /\ WellFormed(hinduTime)
    /\ startAt < hinduTime.now_local_iso.v
    /\ (hinduTime.now_local_iso.v - startAt) % 1000 # 0
    /\ IsNum(tick)

\* C5: a Start without an anchor sets the TickState to the whole seconds from
\* 06:30:00 local of the current date to now, plus 86400 when that is
\* negative; the value is in [0, 86400), 0 at 06:30:00 and 86399 at 06:29:59.
C5_FallbackInitial ==
    (JustStarted /\ ~HasAnchor(hinduTime)) =>
        /\ IsNum(tick)
        /\ tick.v >= 0
        /\ tick.v < 86400
        /\ LET midnight == startAt - (startAt % 86400000)
               d == startAt - (midnight + 23400000)
               b == IF d >= 0 THEN tick.v ELSE tick.v - 86400
           IN  /\ 1000 * b <= d
               /\ d < 1000 * b + 1000
               /\ (startAt % 86400000 = 23400000) => tick.v = 0
               /\ (startAt % 86400000 = 23399000) => tick.v = 86399

\* a fallback Start one second before the assumed sunrise
C5_Witness ==
    /\ JustStarted
    /\ hinduTime = NoAnchor
    /\ startAt = At(1, 6, 29, 59, 0)
    /\ tick = Num(86399)

\* seconds of an H:M:S split
HmsSeconds(hh, mm, ss) == hh * 3600 + mm * 60 + ss

\* C6: for every s in [0, 86399] the ghati count and remainder, and the
\* muhurta count and remainder, of computeFromSeconds(s) add up to s.
C6_CountsAndRemaindersAddUp ==
    (out # NoResult /\ arg >= 0) =>
        /\ out.ghatiCount * 1440 + HmsSeconds(out.ghatiH, out.ghatiM, out.ghatiS) = arg
        /\ out.muhurtaCount * 2880
               + HmsSeconds(out.muhurtaH, out.muhurtaM, out.muhurtaS) = arg

\* the conversion of the last second of the day
C6_Witness == out # NoResult /\ arg = 86399 /\ out.ghatiCount = 59

\* C7: for every s in [0, 86399] every field of computeFromSeconds(s) is the
\* value of its defining quotient or remainder; s = 5002 and s = 0 give the
\* listed values.
C7_FieldsMatchDefinition ==
    (out # NoResult /\ arg >= 0) =>
        LET r == arg % 1440
            q == arg % 2880
        IN  /\ out.seconds = arg
            /\ out.totalPranas = arg \div 4
            /\ out.totalVinadis = arg \div 24
            /\ out.ghatiCount = (arg \div 1440) % 60
            /\ out.ghatiH = r \div 3600
            /\ out.ghatiM = (r % 3600) \div 60
            /\ out.ghatiS = r % 60
            /\ out.muhurtaCount = (arg \div 2880) % 30
            /\ out.muhurtaH = q \div 3600
            /\ out.muhurtaM = (q % 3600) \div 60
            /\ out.muhurtaS = q % 60
            /\ out.vinadiInGhati = r \div 24
            /\ out.pranaInGhati = r \div 4
            /\ (arg = 5002) =>
                   out = [seconds |-> 5002, totalPranas |-> 1250, totalVinadis |-> 208,
                          ghatiCount |-> 3, ghatiH |-> 0, ghatiM |-> 11, ghatiS |-> 22,
                          muhurtaCount |-> 1, muhurtaH |-> 0, muhurtaM |-> 35,
                          muhurtaS |-> 22, vinadiInGhati |-> 28, pranaInGhati |-> 170]
            /\ (arg = 0) => \A f \in BreakdownFields : out[f] = 0

\* the end-to-end example of the conversion
C7_Witness == out # NoResult /\ arg = 5002 /\ out.pranaInGhati = 170

\* C8: every display field shows the live derived value whenever a live
\* breakdown exists, the anchor's snapshot only while none exists, and the
\* placeholder only when neither exists.
C8_DisplayPrefersLive ==
    Running =>
        \A f \in DisplayFields :
            /\ (Derived(tick).k = "obj") => View[f].src = "live"
            /\ (View[f].src = "snapshot") =>
                   (Derived(tick).k # "obj" /\ ~IsNullish(SnapshotOf(hinduTime, f)))
            /\ (View[f].src = "placeholder") =>
                   (Derived(tick).k # "obj" /\ IsNullish(SnapshotOf(hinduTime, f)))

\* C9: a Start from a malformed anchor sets the TickState to the value the
\* fallback source gives at that instant, an integer.
C9_MalformedAnchorFallsBack ==
    (JustStarted /\ Malformed(hinduTime)) =>
        (IsNum(tick) /\ tick = FallbackInitial(startAt))

\* C10: while the panel is closed or torn down no repeating callback is live
\* and the timer handle is null.
C10_NoTimerWhenInactive ==
    (~panelOpen \/ ~mounted) => (intervals = {} /\ tickRef = 0)

\* the component torn down while its clock was running
C10_Witness == ~mounted /\ panelOpen /\ nextId > 1 /\ intervals = {}

\* C11: k ticks after a Start that set the TickState to initial, with no Stop
\* or Start in between and initial + k < 86400, elapsedSeconds is initial + k,
\* however much wall-clock time has passed.
C11_TicksAddToInitial ==
    (Running /\ IsNum(initial) /\ initial.v + ticks < 86400) =>
        tick = Num(initial.v + ticks)

\* three ticks delivered while the wall clock moved by another amount
C11_Witness ==
    /\ Running
    /\ IsNum(initial)
    /\ ticks = 3
    /\ initial.v + ticks < 86400
    /\ now - startAt # 3000

\* C12: while the display stays inactive after a Stop, elapsedSeconds does not
\* change: no tick is delivered once the interval has been cancelled.
C12_NoChangeWhileStopped ==
    [][(~Running /\ ~Running') => tick' = tick]_vars

\* the clock stopped after ticks were delivered, and time went on
C12_Witness ==
    /\ mounted
    /\ ~panelOpen
    /\ IsNum(tick)
    /\ tickRef = 0
    /\ now = At(1, 23, 59, 59, 999)

\* C13: the stop path run while already stopped (the effect re-run with the
\* panel closed) leaves the timer handle null, schedules nothing and leaves
\* the TickState unchanged.
C13_StopIsIdempotent ==
    [][(mounted /\ tickRef = 0 /\ mounted' /\ ~panelOpen') =>
          (tickRef' = 0 /\ intervals' = intervals /\ tick' = tick)]_vars

\* an anchor arrived while the panel had never been opened: the effect took
\* its stop branch with the handle null
C13_Witness ==
    /\ mounted
    /\ ~panelOpen
    /\ nextId = 1
    /\ hinduTime # NoAnchor
    /\ tickRef = 0
    /\ tick = Null

\* C14: for every s in [-86400, -1], computeFromSeconds(s) is the breakdown
\* of s + 86400 (86400 added once); computeFromSeconds(-10) is that of 86390.
C14_NegativeWrapsOnce ==
    (out # NoResult /\ arg < 0) =>
        /\ out = computeFromSeconds(arg + 86400)
        /\ out.seconds = arg + 86400
        /\ out.totalPranas = (arg + 86400) \div 4
        /\ out.ghatiCount = (arg + 86400) \div 1440
        /\ (arg = 0 - 10) =>
               /\ out.seconds = 86390
               /\ out.ghatiCount = 59
               /\ <<out.ghatiH, out.ghatiM, out.ghatiS>> = <<0, 23, 50>>
               /\ out.muhurtaCount = 29
               /\ <<out.muhurtaH, out.muhurtaM, out.muhurtaS>> = <<0, 47, 50>>

\* the conversion of ten seconds before sunrise
C14_Witness == out # NoResult /\ arg = 0 - 10 /\ out.seconds = 86390

\* C15 as claimed: computeFromSeconds(86399) has ghatiCount 59 with remainder
\* 0:23:59 and muhurtaCount 29 with remainder 0:11:59.
C15_LastSecondAsClaimed ==
    (out # NoResult /\ arg = 86399) =>
        /\ out.ghatiCount = 59
        /\ <<out.ghatiH, out.ghatiM, out.ghatiS>> = <<0, 23, 59>>
        /\ out.muhurtaCount = 29
        /\ <<out.muhurtaH, out.muhurtaM, out.muhurtaS>> = <<0, 11, 59>>

\* C15 amended: computeFromSeconds(86399) has ghatiCount 59 with remainder
\* 0:23:59 and muhurtaCount 29 with remainder 0:47:59.
C15_LastSecond ==
    (out # NoResult /\ arg = 86399) =>
        /\ out.ghatiCount = 59
        /\ <<out.ghatiH, out.ghatiM, out.ghatiS>> = <<0, 23, 59>>
        /\ out.muhurtaCount = 29
        /\ <<out.muhurtaH, out.muhurtaM, out.muhurtaS>> = <<0, 47, 59>>

\* the last second of the day converted
C15_Witness == out # NoResult /\ arg = 86399 /\ out.muhurtaCount = 29

\* the live breakdown of the current TickState, as numbers
LiveNumbers ==
    /\ Derived(tick).k = "obj"
    /\ \A f \in BreakdownFields : IsNum(Derived(tick).v[f])

\* C16: for every TickState the running clock reaches, the breakdown derived
\* for display has ghatiCount in [0, 59], ghati remainder seconds in
\* [0, 1439], muhurtaCount in [0, 29], muhurta remainder seconds in [0, 2879]
\* and seconds in [0, 86400).
C16_BreakdownInRange ==
    Running =>
        /\ LiveNumbers
        /\ LET b == Derived(tick).v
               gr == b.ghatiH.v * 3600 + b.ghatiM.v * 60 + b.ghatiS.v
               mr == b.muhurtaH.v * 3600 + b.muhurtaM.v * 60 + b.muhurtaS.v
           IN  /\ b.ghatiCount.v \in 0 .. 59
               /\ gr \in 0 .. 1439
               /\ b.muhurtaCount.v \in 0 .. 29
               /\ mr \in 0 .. 2879
               /\ b.seconds.v >= 0
               /\ b.seconds.v < 86400

\* C17: when the anchor changes while the panel is open (a fetch succeeds or
\* the anchor is cleared), the running interval is cancelled, the TickState is
\* set to the starting value of the new anchor (the fallback when it is null)
\* at the current wall clock, and exactly one new interval is scheduled.
C17_NewAnchorRestarts ==
    [][(Running /\ mounted' /\ hinduTime' # hinduTime) =>
          /\ tickRef # 0
          /\ ~(tickRef \in intervals')
          /\ tickRef' # tickRef
          /\ intervals' = {tickRef'}
          /\ tick' = StartValue(hinduTime', now)
          /\ ticks' = 0]_vars

\* the anchor was cleared while the clock was running: restarted from the fallback
C17_Witness ==
    /\ Running
    /\ restarted
    /\ hinduTime = NoAnchor
    /\ ticks = 0
    /\ tick = FallbackInitial(startAt)
    /\ intervals = {tickRef}

\* C18 as claimed: between the panel opening and closing the TickState changes
\* only by tick increments, whatever fetches complete.
C18_NeverResynchronized ==
    [][(Running /\ Running' /\ tick' # tick) =>
          (ticks' = ticks + 1 /\ nextId' = nextId)]_vars

\* C18 amended: between the panel opening and closing the TickState changes
\* only by a tick increment of 1, or by the restart that an anchor change
\* (a fulfilled fetch, or Clear) causes, which sets it to the starting value
\* of the new anchor; a rejected fetch changes nothing.
C18_ResynchronizedOnlyByAnchor ==
    [][(Running /\ Running' /\ tick' # tick) =>
          \/ /\ ticks' = ticks + 1
             /\ nextId' = nextId
             /\ hinduTime' = hinduTime
             /\ IF IsNum(tick) THEN tick' = Num(tick.v + 1) ELSE tick' = NaN
          \/ /\ nextId' = nextId + 1
             /\ ticks' = 0
             /\ tick' = initial'
             /\ \/ (inflight' = inflight - 1 /\ showPanchang' /\ ~loading')
                \/ (showPanchang /\ ~showPanchang' /\ hinduTime' = NoAnchor)]_vars

\* a running clock restarted by a well-formed anchor that arrived while open
C18_Witness ==
    /\ Running
    /\ restarted
    /\ WellFormed(hinduTime)
    /\ ticks = 0
    /\ tick = initial

\* the rows on display all hold numbers (and H:M:S strings of numbers)
ViewIsNumeric ==
    /\ View.k = "rows"
    /\ \A f \in {"seconds", "ghatiCount", "muhurtaCount", "vinadiInGhati", "pranaInGhati"} :
           IsNum(View[f].val)
    /\ View.ghatiRem.val.k = "hms"
    /\ View.muhurtaRem.val.k = "hms"

\* seconds of a displayed "HH:MM:SS"
ShownSeconds(x) == x.v[1] * 3600 + x.v[2] * 60 + x.v[3]

\* C19: while the panel is visible and the clock runs on a TickState in
\* [0, 86400), the displayed rows describe one instant: ghati count * 1440 +
\* ghati remainder and muhurta count * 2880 + muhurta remainder both equal the
\* displayed seconds since sunrise, and the displayed vinadi and prana of the
\* ghati are the remainder over 24 and over 4.
C19_RowsDescribeOneInstant ==
    (Running /\ IsNum(tick) /\ tick.v >= 0 /\ tick.v < 86400 /\ ViewIsNumeric) =>
        LET gr == ShownSeconds(View.ghatiRem.val)
            mr == ShownSeconds(View.muhurtaRem.val)
        IN  /\ View.ghatiCount.val.v * 1440 + gr = View.seconds.val.v
            /\ View.muhurtaCount.val.v * 2880 + mr = View.seconds.val.v
            /\ View.vinadiInGhati.val.v = gr \div 24
            /\ View.pranaInGhati.val.v = gr \div 4

\* the render of the commit that opens the panel: it precedes the commit's
\* effects, so the state tick is still the one the last session left
RenderBeforeEffect(open, h) == Render(open, tick, h)

\* C20: when the panel is reopened after an earlier session, the render that
\* precedes the Start effect shows the elapsed seconds of the new session's
\* initial value, never the last TickState of the previous session.
C20_ReopenShowsNewSession ==
    [][(mounted /\ ~panelOpen /\ panelOpen' /\ nextId > 1) =>
          RenderBeforeEffect(TRUE, hinduTime').seconds
              = Render(TRUE, initial', hinduTime').seconds]_vars

\* a step of Panchang that keeps panelOpen and the anchor object, told by
\* what it changes: the modal opened or closed, Calculate pressed, a fetch
\* that failed, the form data set
KeepsOpenAndAnchor ==
    /\ mounted'
    /\ panelOpen' = panelOpen
    /\ hinduTime' = hinduTime
    /\ showPanchang' = showPanchang
    /\ \/ (showModal' # showModal /\ inflight' = inflight /\ loading' = loading)
       \/ inflight' = inflight + 1
       \/ (inflight' = inflight - 1 /\ showModal' = showModal
              /\ (showModal \/ ~showPanchang))
       \/ formData' # formData

\* C21: while the clock runs, an operation of Panchang that changes neither
\* panelOpen nor the anchor object (form edits and location updates, the
\* modal opened or closed, loading toggled, a failed fetch) leaves the
\* scheduler untouched: same timer handle, same live interval, no Stop or
\* Start, and tick not initialised again.
C21_ParentStepsKeepScheduler ==
    [][(Running /\ KeepsOpenAndAnchor) =>
          /\ tickRef' = tickRef
          /\ intervals' = intervals
          /\ nextId' = nextId
          /\ hasCleanup' = hasCleanup
          /\ tick' = tick
          /\ initial' = initial
          /\ ticks' = ticks
          /\ startAt' = startAt]_vars

\* the clock has run through two ticks of its first session while the form
\* was edited and a fetch failed with the modal still open
C21_Witness ==
    /\ Running
    /\ nextId = 2
    /\ tickRef = 1
    /\ ticks = 2
    /\ IsNum(initial)
    /\ tick = Num(initial.v + 2)
    /\ formData = 1
    /\ showModal
    /\ ~showPanchang
    /\ ~loading
    /\ inflight = 1

\* C22: loading is true in every state with a Panchang fetch in flight, so
\* it turns false only when the last of them has settled, also when
\* Calculate is pressed again before an earlier fetch has settled.
C22_LoadingWhileInFlight == (mounted /\ inflight > 0) => loading

====
